---- MODULE Spec2Model ----
(***************************************************************************)
(* Model of twitch_scraper.py: GetStreamers (scrape, history),             *)
(* CompileData (database, format, append) and main().                      *)
(*                                                                         *)
(* Encodings.  A channel name is a sequence of one-character strings, so   *)
(* that str.lower() is computed character by character.  A table name is   *)
(* the token "streamer_" followed by the characters of the lowercased      *)
(* name.  A Python dict is a sequence of <<key, value>> pairs in insertion *)
(* order.  A database is a function from the names of the existing tables  *)
(* to their sets of rows; a row is <<date, average_viewers, stream_days>>. *)
(***************************************************************************)
EXTENDS Integers, Sequences, FiniteSets, TLC

VARIABLES
    pc,              \* position of main(): which call comes next
    client_id,       \* os.getenv("CLIENT_ID")
    token,           \* os.getenv("TOKEN")
    response,        \* the ranking response handed to scrape() (SpecScrape)
    streamers,       \* GetStreamers.streamers
    history_data,    \* GetStreamers.history_data (dict)
    streamer_lines,  \* result of CompileData.format (dict)
    db,              \* the committed PostgreSQL database
    ranking,         \* observation: status and entity count of the ranking response
    fetched,         \* observation: per ranked occurrence and period, the record the request gave
    statements,      \* observation: the INSERTs executed by the last append()
    refused,         \* observation: the tables whose CREATE raised in database()
    ensured,         \* observation: tables created and committed by database() in this run (call)
    dbStart,         \* observation: db when the run (or the call) started
    httpCalls,       \* observation: HTTP requests issued in this run
    historyCalls,    \* observation: of these, requests issued by history()
    dbConnects       \* observation: psycopg2.connect calls in this run (call)

vars == <<pc, client_id, token, response, streamers, history_data, streamer_lines,
          db, ranking, fetched, statements, refused, ensured, dbStart,
          httpCalls, historyCalls, dbConnects>>

----------------------------------------------------------------------------
(* Values *)

\* os.getenv / dict.get on a missing key: Python's None, as a string value.
None == "<None>"

\* dict.get('average_viewers') on a missing key, as an integer-column value.
Absent == -1

\* A value PostgreSQL cannot store in an INTEGER column.
NotAnInteger == -2

StatusOK == 200

Statuses == {200, 500}

time_periods == <<"7-days", "last-month", "last-year">>

Periods == {time_periods[i] : i \in 1..Len(time_periods)}

Limit == 20

Min(a, b) == IF a < b THEN a ELSE b

Range(s) == {s[i] : i \in 1..Len(s)}

----------------------------------------------------------------------------
(* str.lower() and the table name *)

UpperChars == <<"A", "B", "C">>

LowerChars == <<"a", "b", "c">>

LowerChar(c) ==
    IF \E i \in 1..Len(UpperChars) : UpperChars[i] = c
    THEN LowerChars[CHOOSE i \in 1..Len(UpperChars) : UpperChars[i] = c]
    ELSE c

Lower(name) == [i \in 1..Len(name) |-> LowerChar(name[i])]

\* The table name without lower()
TableNameVerbatim(streamer) == <<"streamer_">> \o streamer

\* f"streamer_{streamer.lower()}" in database()
DatabaseTableName(streamer) == <<"streamer_">> \o Lower(streamer)

\* f"streamer_{streamer.lower()}" in format()
FormatTableName(streamer) == <<"streamer_">> \o Lower(streamer)

----------------------------------------------------------------------------
(* Python dicts: insertion-ordered, assignment to a present key keeps its place *)

DictKeys(d) == {d[i][1] : i \in 1..Len(d)}

DictGet(d, k) == d[CHOOSE i \in 1..Len(d) : d[i][1] = k][2]

DictSet(d, k, v) ==
    IF k \in DictKeys(d)
    THEN [i \in 1..Len(d) |-> IF d[i][1] = k THEN <<k, v>> ELSE d[i]]
    ELSE Append(d, <<k, v>>)

----------------------------------------------------------------------------
(* GetStreamers.scrape *)

\* s.get('average_viewers', 0)
SortKey(s) == IF s.average_viewers = Absent THEN 0 ELSE s.average_viewers

\* One step of a stable descending sort: x goes behind every element whose
\* key is at least its own.
RECURSIVE InsertDescending(_, _)
InsertDescending(sorted, x) ==
    IF sorted = <<>> THEN <<x>>
    ELSE IF SortKey(Head(sorted)) >= SortKey(x)
         THEN <<Head(sorted)>> \o InsertDescending(Tail(sorted), x)
         ELSE <<x>> \o sorted

\* An ascending stable sort read backwards: equal keys come out in reverse order.
RECURSIVE InsertAscending(_, _)
InsertAscending(sorted, x) ==
    IF sorted = <<>> THEN <<x>>
    ELSE IF SortKey(Head(sorted)) <= SortKey(x)
         THEN <<Head(sorted)>> \o InsertAscending(Tail(sorted), x)
         ELSE <<x>> \o sorted

RECURSIVE SortedAscending(_)
SortedAscending(data) ==
    IF data = <<>> THEN <<>>
    ELSE InsertAscending(SortedAscending(SubSeq(data, 1, Len(data) - 1)), data[Len(data)])

AscendingReversed(data) ==
    LET up == SortedAscending(data) IN [i \in 1..Len(up) |-> up[Len(up) + 1 - i]]

\* sorted(data, key=..., reverse=True): stable, descending
RECURSIVE SortedDescending(_)
SortedDescending(data) ==
    IF data = <<>> THEN <<>>
    ELSE InsertDescending(SortedDescending(SubSeq(data, 1, Len(data) - 1)),
                          data[Len(data)])

\* sorted_data[:20]
Top(sorted_data) == SubSeq(sorted_data, 1, Min(Limit, Len(sorted_data)))

\* scrape without the status check
scrapeAnyStatus(resp) ==
    LET top_20 == Top(SortedDescending(resp.data))
    IN  [i \in 1..Len(top_20) |-> top_20[i].channel_name]

scrape(resp) ==
    IF resp.status = StatusOK
    THEN LET top_20 == Top(SortedDescending(resp.data))
         IN  [i \in 1..Len(top_20) |-> top_20[i].channel_name]
    ELSE <<>>

----------------------------------------------------------------------------
(* GetStreamers.history *)

\* The record as the API sent it, its own date kept
KeepApiDate(data, period) ==
    [average_viewers |-> data.average_viewers,
     stream_days |-> data.stream_days,
     date |-> data.date]

\* response.json().get('data', {}) is a sequence here: <<>> for no data,
\* <<d>> for the object d.
\* data['date'] = period
TagPeriod(data, period) ==
    [average_viewers |-> data.average_viewers,
     stream_days |-> data.stream_days,
     date |-> period]

\* One pass of the inner loop: the record the request for period p adds, if any.
FetchedRecord(resp, p) ==
    IF resp.status = StatusOK /\ resp.data # <<>>
    THEN <<TagPeriod(resp.data[1], time_periods[p])>>
    ELSE <<>>

RECURSIVE RecordsUpTo(_, _)
RecordsUpTo(resps, p) ==
    IF p = 0 THEN <<>>
    ELSE RecordsUpTo(resps, p - 1) \o FetchedRecord(resps[p], p)

\* The outer loop over self.streamers[1..n]; resps[i][p] answers the request
\* for the i-th ranked name and the p-th period.
RECURSIVE HistoryUpTo(_, _, _, _)
HistoryUpTo(data, names, resps, n) ==
    IF n = 0 THEN data
    ELSE DictSet(HistoryUpTo(data, names, resps, n - 1), names[n],
                 RecordsUpTo(resps[n], Len(time_periods)))

history(data, names, resps) == HistoryUpTo(data, names, resps, Len(names))

----------------------------------------------------------------------------
(* CompileData.database *)

\* CREATE TABLE IF NOT EXISTS
CreateTable(store, table_name) ==
    IF table_name \in DOMAIN store THEN store
    ELSE [t \in DOMAIN store \cup {table_name} |->
              IF t \in DOMAIN store THEN store[t] ELSE {}]

RECURSIVE CreateUpTo(_, _, _)
CreateUpTo(store, streamer_tables, n) ==
    IF n = 0 THEN store
    ELSE CreateTable(CreateUpTo(store, streamer_tables, n - 1),
                     DatabaseTableName(streamer_tables[n]))

\* The tables whose CREATE the server refuses make c.execute raise; nothing
\* catches it, so conn.commit() is not reached.
DatabaseRaises(streamer_tables, refusing) ==
    \E i \in 1..Len(streamer_tables) : DatabaseTableName(streamer_tables[i]) \in refusing

database(store, streamer_tables, refusing) ==
    IF DatabaseRaises(streamer_tables, refusing) THEN store
    ELSE CreateUpTo(store, streamer_tables, Len(streamer_tables))

----------------------------------------------------------------------------
(* CompileData.format *)

Line(record) == <<record.date, record.average_viewers, record.stream_days>>

Lines(records) == [i \in 1..Len(records) |-> Line(records[i])]

RECURSIVE FormatUpTo(_, _)
FormatUpTo(data, n) ==
    IF n = 0 THEN <<>>
    ELSE DictSet(FormatUpTo(data, n - 1), FormatTableName(data[n][1]), Lines(data[n][2]))

format(data) == FormatUpTo(data, Len(data))

----------------------------------------------------------------------------
(* CompileData.append *)

\* The statements in execution order: for table_name, lines in items(): for line in lines
RECURSIVE Flatten(_)
Flatten(lines_by_table) ==
    IF lines_by_table = <<>> THEN <<>>
    ELSE [i \in 1..Len(Head(lines_by_table)[2]) |->
              <<Head(lines_by_table)[1], Head(lines_by_table)[2][i]>>]
         \o Flatten(Tail(lines_by_table))

\* c.execute(INSERT ...) raises: no such table, NULL primary key, or a value
\* that is no INTEGER.
InsertRaises(store, table_name, line) ==
    \/ table_name \notin DOMAIN store
    \/ line[1] = None
    \/ line[2] = NotAnInteger
    \/ line[3] = NotAnInteger

\* INSERT ... ON CONFLICT (date) DO UPDATE
InsertOrUpdate(store, table_name, line) ==
    [store EXCEPT ![table_name] = {row \in @ : row[1] # line[1]} \cup {line}]

\* INSERT ... ON CONFLICT (date) DO NOTHING
Insert(store, table_name, line) ==
    IF \E row \in store[table_name] : row[1] = line[1]
    THEN store
    ELSE [store EXCEPT ![table_name] = @ \cup {line}]

\* The connection's view of the database after the first n statements.  The
\* connection is not in autocommit mode: all the statements since the last
\* commit or rollback form one transaction, and conn.rollback() discards it.
RECURSIVE TransactionUpTo(_, _, _)
TransactionUpTo(committed, stmts, n) ==
    IF n = 0 THEN committed
    ELSE LET before == TransactionUpTo(committed, stmts, n - 1)
         IN  IF InsertRaises(before, stmts[n][1], stmts[n][2])
             THEN committed
             ELSE Insert(before, stmts[n][1], stmts[n][2])

\* conn.commit() at the end of append
append(store, lines_by_table) ==
    TransactionUpTo(store, Flatten(lines_by_table), Len(Flatten(lines_by_table)))

----------------------------------------------------------------------------
(* main *)

\* not client_id and not token
BothCredentialsMissing(id, tok) == id \in {None, ""} /\ tok \in {None, ""}

\* not client_id or not token
CredentialsMissing(id, tok) == id \in {None, ""} \/ tok \in {None, ""}

----------------------------------------------------------------------------
(* Inputs of the pipeline: what the environment, the API and the server may do *)

MaxRanking == 2

MaxFaults == 1

\* The ranked channel names; two of them differ only in case.
Names == {<<"A", "b">>, <<"a", "b">>, <<"c">>}

Credentials == {None, "", "id"}

RECURSIVE SeqsUpTo(_, _)
SeqsUpTo(S, n) ==
    IF n = 0 THEN {<<>>}
    ELSE LET shorter == SeqsUpTo(S, n - 1)
         IN  shorter \cup {Append(s, x) : s \in {t \in shorter : Len(t) = n - 1}, x \in S}

RankingEntities == [channel_name : Names, average_viewers : {1, 2}]

RankingInputs == [status : Statuses, data : SeqsUpTo(RankingEntities, MaxRanking)]

\* The answer of the history endpoint when nothing goes wrong.
NominalResponse ==
    [status |-> 200,
     data |-> <<[average_viewers |-> 1, stream_days |-> 1, date |-> "2024-01-01"]>>]

\* HTTP 500, and HTTP 200 with an empty data object.
FaultResponses ==
    {[status |-> 500, data |-> <<>>], [status |-> 200, data |-> <<>>],
     [status |-> 200,
      data |-> <<[average_viewers |-> NotAnInteger, stream_days |-> 1, date |-> "2024-01-01"]>>]}

Slots(n) == (1..n) \X (1..Len(time_periods))

FaultAssignments(n) ==
    UNION {[F -> FaultResponses] : F \in {G \in SUBSET Slots(n) : Cardinality(G) <= MaxFaults}}

\* The answers to the requests of one history() call over n names, at most
\* MaxFaults of them faulty.
HistoryInputs(n) ==
    {[i \in 1..n |-> [p \in 1..Len(time_periods) |->
          IF <<i, p>> \in DOMAIN f THEN f[<<i, p>>] ELSE NominalResponse]] :
     f \in FaultAssignments(n)}

\* The server refuses at most one of the CREATE statements.
RefusalInputs(names) == {{}} \cup {{DatabaseTableName(names[i])} : i \in 1..Len(names)}

NoTables == [t \in {} |-> {}]

----------------------------------------------------------------------------
(* The pipeline: main(), one call per step, run again and again on one database *)

Fresh ==
    /\ client_id = None
    /\ token = None
    /\ response = [status |-> 200, data |-> <<>>]
    /\ streamers = <<>>
    /\ history_data = <<>>
    /\ streamer_lines = <<>>
    /\ ranking = [status |-> 0, count |-> 0]
    /\ fetched = <<>>
    /\ statements = <<>>
    /\ refused = {}
    /\ ensured = {}
    /\ httpCalls = 0
    /\ historyCalls = 0
    /\ dbConnects = 0

Init ==
    /\ pc = "main"
    /\ db = NoTables
    /\ dbStart = NoTables
    /\ Fresh

\* load_dotenv(); os.getenv; the credentials check; GetStreamers(...)
Main ==
    /\ pc = "main"
    /\ \E id \in Credentials, tok \in Credentials :
          /\ client_id' = id
          /\ token' = tok
          /\ pc' = IF CredentialsMissing(id, tok) THEN "done" ELSE "scrape"
    /\ UNCHANGED <<response, streamers, history_data, streamer_lines, db, ranking,
                   fetched, statements, refused, ensured, dbStart, httpCalls,
                   historyCalls, dbConnects>>

\* streamers = gs.scrape()
Scrape ==
    /\ pc = "scrape"
    /\ \E resp \in RankingInputs :
          /\ streamers' = scrape(resp)
          /\ ranking' = [status |-> resp.status, count |-> Len(resp.data)]
    /\ httpCalls' = httpCalls + 1
    /\ pc' = "history"
    /\ UNCHANGED <<client_id, token, response, history_data, streamer_lines, db,
                   fetched, statements, refused, ensured, dbStart, historyCalls,
                   dbConnects>>

\* history = gs.history()
History ==
    /\ pc = "history"
    /\ \E resps \in HistoryInputs(Len(streamers)) :
          /\ history_data' = history(history_data, streamers, resps)
          /\ fetched' = [i \in 1..Len(streamers) |->
                           [p \in 1..Len(time_periods) |-> FetchedRecord(resps[i][p], p)]]
    /\ httpCalls' = httpCalls + Len(streamers) * Len(time_periods)
    /\ historyCalls' = historyCalls + Len(streamers) * Len(time_periods)
    /\ pc' = "database"
    /\ UNCHANGED <<client_id, token, response, streamers, streamer_lines, db, ranking,
                   statements, refused, ensured, dbStart, dbConnects>>

\* cd = CompileData(); cd.database(streamers)
Database ==
    /\ pc = "database"
    /\ \E refusing \in RefusalInputs(streamers) :
          /\ db' = database(db, streamers, refusing)
          /\ IF DatabaseRaises(streamers, refusing)
             THEN /\ pc' = "crashed"
                  /\ refused' = refusing
                  /\ UNCHANGED ensured
             ELSE /\ pc' = "format"
                  /\ ensured' = {DatabaseTableName(streamers[i]) : i \in 1..Len(streamers)}
                  /\ UNCHANGED refused
    /\ dbConnects' = dbConnects + 1
    /\ UNCHANGED <<client_id, token, response, streamers, history_data, streamer_lines,
                   ranking, fetched, statements, dbStart, httpCalls, historyCalls>>

\* streamer_lines = cd.format(history)
Format ==
    /\ pc = "format"
    /\ streamer_lines' = format(history_data)
    /\ pc' = "append"
    /\ UNCHANGED <<client_id, token, response, streamers, history_data, db, ranking,
                   fetched, statements, refused, ensured, dbStart, httpCalls,
                   historyCalls, dbConnects>>

\* cd.append(streamer_lines)
AppendLines ==
    /\ pc = "append"
    /\ db' = append(db, streamer_lines)
    /\ statements' = Flatten(streamer_lines)
    /\ dbConnects' = dbConnects + 1
    /\ pc' = "done"
    /\ UNCHANGED <<client_id, token, response, streamers, history_data, streamer_lines,
                   ranking, fetched, refused, ensured, dbStart, httpCalls, historyCalls>>

\* The process has ended (main returned or raised); the script is started again.
NextRun ==
    /\ pc \in {"done", "crashed"}
    /\ pc' = "main"
    /\ dbStart' = db
    /\ client_id' = None
    /\ token' = None
    /\ streamers' = <<>>
    /\ history_data' = <<>>
    /\ streamer_lines' = <<>>
    /\ ranking' = [status |-> 0, count |-> 0]
    /\ fetched' = <<>>
    /\ statements' = <<>>
    /\ refused' = {}
    /\ ensured' = {}
    /\ httpCalls' = 0
    /\ historyCalls' = 0
    /\ dbConnects' = 0
    /\ UNCHANGED <<db, response>>

Next == Main \/ Scrape \/ History \/ Database \/ Format \/ AppendLines \/ NextRun

Spec == Init /\ [][Next]_vars

----------------------------------------------------------------------------
(* The store alone: database() and append() called with any arguments *)

MaxStatements == 2

StoreDates == {"7-days", "last-month"}

StoreLines == StoreDates \X {1, 2, NotAnInteger} \X {1}

StoreTables == {DatabaseTableName(n) : n \in Names}

\* Dicts from table names to lines holding at most MaxStatements lines in all.
AppendInputs ==
    LET lists == SeqsUpTo(StoreLines, MaxStatements)
    IN  {<<>>}
        \cup {<<<<t, l>>>> : t \in StoreTables, l \in lists}
        \cup {<<<<t1, l1>>, <<t2, l2>>>> :
                 <<t1, l1, t2, l2>> \in
                     {q \in StoreTables \X lists \X StoreTables \X lists :
                         q[1] # q[3] /\ Len(q[2]) + Len(q[4]) <= MaxStatements}}

InitStore ==
    /\ pc = "store"
    /\ db = NoTables
    /\ dbStart = NoTables
    /\ Fresh

\* A caller hands streamer_tables to database; the Database action then runs
\* the call on them (the argument is held in streamers, as main passes it).
StoreCallDatabase ==
    /\ pc = "store"
    /\ \E names \in SeqsUpTo(Names, MaxRanking) : streamers' = names
    /\ dbStart' = db
    /\ pc' = "database"
    /\ UNCHANGED <<client_id, token, response, history_data, streamer_lines, db,
                   ranking, fetched, statements, refused, ensured, httpCalls,
                   historyCalls, dbConnects>>

\* A caller hands streamer_lines to append
StoreCallAppend ==
    /\ pc = "store"
    /\ \E lines_by_table \in AppendInputs : streamer_lines' = lines_by_table
    /\ dbStart' = db
    /\ pc' = "append"
    /\ UNCHANGED <<client_id, token, response, streamers, history_data, db, ranking,
                   fetched, statements, refused, ensured, httpCalls, historyCalls,
                   dbConnects>>

\* database or append has returned to its caller, or has raised
StoreReturn ==
    /\ pc \in {"format", "crashed", "done"}
    /\ pc' = "store"
    /\ streamers' = <<>>
    /\ streamer_lines' = <<>>
    /\ statements' = <<>>
    /\ refused' = {}
    /\ ensured' = {}
    /\ dbConnects' = 0
    /\ UNCHANGED <<client_id, token, response, history_data, db, ranking, fetched,
                   dbStart, httpCalls, historyCalls>>

NextStore == StoreCallDatabase \/ Database \/ StoreCallAppend \/ AppendLines \/ StoreReturn

SpecStore == InitStore /\ [][NextStore]_vars

----------------------------------------------------------------------------
(* scrape() alone, on ranking responses longer than the limit *)

MaxEntities == 22

Digits == <<"0", "1", "2", "3", "4", "5", "6", "7", "8", "9">>

\* The i-th channel of a response: all names differ.
ChannelName(i) == <<"c", Digits[(i \div 10) + 1], Digits[(i % 10) + 1]>>

\* n entities of 1 viewer each, but for the entities the function special
\* names, which have the viewers it gives (Absent: no average_viewers key).
RankingData(n, special) ==
    [i \in 1..n |->
        [channel_name |-> ChannelName(i),
         average_viewers |-> IF i \in DOMAIN special THEN special[i] ELSE 1]]

SpecialViewers == {Absent, 0, 2}

ScrapeData ==
    {RankingData(n, special) :
        n \in 0..MaxEntities,
        special \in UNION {[P -> SpecialViewers] :
                              P \in {Q \in SUBSET (1..MaxEntities) : Cardinality(Q) <= 2}}}

ScrapeInputs ==
    [status : {200}, data : ScrapeData] \cup [status : {500}, data : SeqsUpTo(RankingEntities, 1)]

InitScrape ==
    /\ pc = "scrape"
    /\ db = NoTables
    /\ dbStart = NoTables
    /\ client_id = "id"
    /\ token = "id"
    /\ response \in ScrapeInputs
    /\ streamers = <<>>
    /\ history_data = <<>>
    /\ streamer_lines = <<>>
    /\ ranking = [status |-> 0, count |-> 0]
    /\ fetched = <<>>
    /\ statements = <<>>
    /\ refused = {}
    /\ ensured = {}
    /\ httpCalls = 0
    /\ historyCalls = 0
    /\ dbConnects = 0

\* gs.scrape() on the response the API gave
ScrapeCall ==
    /\ pc = "scrape"
    /\ streamers' = scrape(response)
    /\ ranking' = [status |-> response.status, count |-> Len(response.data)]
    /\ httpCalls' = httpCalls + 1
    /\ pc' = "history"
    /\ UNCHANGED <<client_id, token, response, history_data, streamer_lines, db,
                   fetched, statements, refused, ensured, dbStart, historyCalls,
                   dbConnects>>

NextScrape == ScrapeCall

SpecScrape == InitScrape /\ [][NextScrape]_vars

----------------------------------------------------------------------------
(* Properties *)

\* The rows of table t that carry date d.
RowsFor(store, t, d) == IF t \in DOMAIN store THEN {row \in store[t] : row[1] = d} ELSE {}

\* The connection's view when the i-th statement of the last append ran, and
\* whether that statement raised.
ViewBefore(i) == TransactionUpTo(dbStart, statements, i - 1)

StatementRaised(i) == InsertRaises(ViewBefore(i), statements[i][1], statements[i][2])

\* C1: append is insert-if-absent.  Every row a table held when append was
\* called is still there when it returns, unchanged, and it is the only row of
\* its table with that date, whatever values the appended lines carry.
C1_AppendKeepsExistingRows ==
    pc = "done" =>
        \A t \in DOMAIN dbStart : \A row \in dbStart[t] :
            RowsFor(db, t, row[1]) = {row}

\* C1 witness: append has run a line that did not raise, for a date the table
\* already held with other values.
C1_Witness ==
    /\ pc = "done"
    /\ \E i \in 1..Len(statements) :
          /\ ~StatementRaised(i)
          /\ \E row \in RowsFor(dbStart, statements[i][1], statements[i][2][1]) :
                row[2] # statements[i][2][2]

\* C2: when an insert raises during append, only that row is rolled back: every
\* row of the call whose insert did not raise is in its table when append returns.
C2_OnlyFailingRowRolledBack ==
    pc = "done" =>
        \A i \in 1..Len(statements) :
            ~StatementRaised(i) =>
                RowsFor(db, statements[i][1], statements[i][2][1]) # {}

\* C3: with CLIENT_ID or TOKEN absent, main ends without any HTTP request and
\* without any database operation.
C3_MissingCredentialsDoNothing ==
    (pc # "main" /\ (client_id = None \/ token = None)) =>
        /\ pc = "done"
        /\ httpCalls = 0
        /\ dbConnects = 0
        /\ ensured = {}
        /\ statements = <<>>
        /\ db = dbStart

\* C3 witness: a run that ended with the token set and the client id absent.
C3_Witness == pc = "done" /\ client_id = None /\ token = "id"

\* The ranking request has been answered, and scrape had nothing to return.
EmptyRanking ==
    /\ ranking.status # 0
    /\ (ranking.status # 200 \/ ranking.count = 0)

\* C4, as claimed: after an empty ranking the run ends at that step: history,
\* database, format and append are not executed and no connection is opened.
C4_EmptyRankingEndsRun ==
    EmptyRanking => (pc = "history" /\ dbConnects = 0)

\* C4, amended: after an empty ranking the run goes through all its steps with
\* nothing to do: no history request, no table created, no row inserted, the
\* database unchanged; database() and append() each open a connection.
C4_EmptyRankingDoesNothing ==
    EmptyRanking =>
        /\ streamers = <<>>
        /\ pc # "crashed"
        /\ historyCalls = 0
        /\ httpCalls = 1
        /\ ensured = {}
        /\ statements = <<>>
        /\ db = dbStart
        /\ dbConnects = (CASE pc = "format" -> 1 [] pc = "append" -> 1
                           [] pc = "done" -> 2 [] OTHER -> 0)

\* C4 witness: a run that got HTTP 500 with entities in the body and went on to its end.
C4_Witness ==
    pc = "done" /\ ranking.status = 500 /\ ranking.count > 0 /\ dbConnects = 2

\* The place entity i of the response takes when the response is sorted by
\* viewers, descending, entities with equal viewers kept in response order.
RankOf(data, i) ==
    1 + Cardinality({j \in 1..Len(data) : SortKey(data[j]) > SortKey(data[i])})
      + Cardinality({j \in 1..(i - 1) : SortKey(data[j]) = SortKey(data[i])})

\* C5: on a successful response of n entities scrape returns min(n, 20) names,
\* the names of the first min(n, 20) entities in descending stable order.
C5_ScrapeReturnsTopTwenty ==
    (pc = "history" /\ response.status = 200) =>
        /\ Len(streamers) = (IF Len(response.data) < 20 THEN Len(response.data) ELSE 20)
        /\ \A i \in 1..Len(response.data) :
              RankOf(response.data, i) <= 20 =>
                  streamers[RankOf(response.data, i)] = response.data[i].channel_name

\* C5 witness: more than 20 entities, one of the top viewers behind position 20,
\* and it made the list while entities tied at 1 viewer did not.
C5_Witness ==
    /\ pc = "history"
    /\ response.status = 200
    /\ Len(response.data) > 20
    /\ Len(streamers) = 20
    /\ \E i \in 21..Len(response.data) :
          /\ response.data[i].average_viewers = 2
          /\ response.data[i].channel_name \in Range(streamers)
    /\ \E j \in 1..20 : response.data[j].channel_name \notin Range(streamers)

\* C6: the steps of a run are ordered: history requests are issued only after
\* the ranking request was answered, and append inserts only into tables that
\* database() created and committed in the same run.
C6_StepsOrdered ==
    /\ historyCalls > 0 => (ranking.status # 0 /\ httpCalls = 1 + historyCalls)
    /\ \A i \in 1..Len(statements) : statements[i][1] \in ensured
    /\ ensured # {} => historyCalls = Len(streamers) * Len(time_periods)

\* C6 witness: a run that fetched history and executed inserts.
C6_Witness == pc = "done" /\ historyCalls > 0 /\ statements # <<>>

\* The table of the entity with the given channel name.
TableOf(name) == <<"streamer_">> \o Lower(name)

\* No request of the run for this table and period gave a record.
NothingFetched(t, p) ==
    \A j \in 1..Len(streamers) : TableOf(streamers[j]) = t => fetched[j][p] = <<>>

\* Some request of the run for the entity and period p failed or gave no data.
FetchFailed(entity, p) ==
    \E i \in 1..Len(streamers) : streamers[i] = entity /\ fetched[i][p] = <<>>

\* No request of the run for the entity and period p failed, and they gave
\* records that the table can store.
FetchSucceeded(entity, p) ==
    /\ entity \in Range(streamers)
    /\ \A i \in 1..Len(streamers) :
          streamers[i] = entity =>
              /\ fetched[i][p] # <<>>
              /\ fetched[i][p][1].average_viewers # NotAnInteger

\* C7: when the history fetch for one (entity, window) fails or gives no data,
\* the run persists no row for it, and every other (entity, window) whose fetch
\* succeeded has a row in the entity's table at the end of the run.
C7_FetchFailureIsolated ==
    pc = "done" =>
        \A i \in 1..Len(streamers), p \in 1..Len(time_periods) :
            FetchFailed(streamers[i], p) =>
                /\ NothingFetched(TableOf(streamers[i]), p)
                       => RowsFor(db, TableOf(streamers[i]), time_periods[p])
                              = RowsFor(dbStart, TableOf(streamers[i]), time_periods[p])
                /\ \A j \in 1..Len(streamers), q \in 1..Len(time_periods) :
                       FetchSucceeded(streamers[j], q)
                           => RowsFor(db, TableOf(streamers[j]), time_periods[q]) # {}

\* C8: a CREATE that fails for one entity does not block the others: their
\* tables are created and committed and the run goes on to append.
C8_SchemaFailureIsolated ==
    refused # {} =>
        /\ pc # "crashed"
        /\ \A i \in 1..Len(streamers) :
              TableOf(streamers[i]) \notin refused => TableOf(streamers[i]) \in DOMAIN db

\* a is b with some elements left out.
RECURSIVE IsSubsequence(_, _)
IsSubsequence(a, b) ==
    IF a = <<>> THEN TRUE
    ELSE IF b = <<>> THEN FALSE
    ELSE IF Head(a) = Head(b) THEN IsSubsequence(Tail(a), Tail(b))
    ELSE IsSubsequence(a, Tail(b))

\* C9: format maps the table of every entity key of the history map to a
\* sequence that holds all of that entity's records, as tuples and in order,
\* also when two keys differ only in case.
C9_NormalizeKeepsAllRecords ==
    pc \in {"append", "done"} =>
        \A k \in 1..Len(history_data) :
            /\ TableOf(history_data[k][1]) \in DictKeys(streamer_lines)
            /\ IsSubsequence(
                   [r \in 1..Len(history_data[k][2]) |->
                       <<history_data[k][2][r].date,
                         history_data[k][2][r].average_viewers,
                         history_data[k][2][r].stream_days>>],
                   DictGet(streamer_lines, TableOf(history_data[k][1])))

\* C10: every table holds at most three rows, their dates distinct and among
\* the three periods, and a run executes for a table and a period no more
\* inserts than the ranking has occurrences of that table's entity.
C10_TablesHoldPeriods ==
    /\ \A t \in DOMAIN db :
          /\ Cardinality(db[t]) <= 3
          /\ \A row \in db[t] :
                /\ row[1] \in {"7-days", "last-month", "last-year"}
                /\ RowsFor(db, t, row[1]) = {row}
    /\ \A i \in 1..Len(statements) :
          Cardinality({j \in 1..Len(statements) :
                          /\ statements[j][1] = statements[i][1]
                          /\ statements[j][2][1] = statements[i][2][1]})
              <= Cardinality({j \in 1..Len(streamers) :
                                 TableOf(streamers[j]) = statements[i][1]})

\* C10 witness: a later run, whose ranking named one entity twice in different
\* case, has inserted again into a table that already held its three rows.
C10_Witness ==
    /\ pc = "done"
    /\ \E i \in 1..Len(statements) :
          /\ statements[i][1] \in DOMAIN dbStart
          /\ Cardinality(dbStart[statements[i][1]]) = 3
          /\ Cardinality(db[statements[i][1]]) = 3
    /\ \E i, j \in 1..Len(streamers) :
          streamers[i] # streamers[j] /\ TableOf(streamers[i]) = TableOf(streamers[j])

====
